---- MODULE Spec2Model ----
(***************************************************************************)
(* Model of openllm/_runners.py: PyTorchRunnable.generate_iterator and     *)
(* PyTorchRunnable.forward, the token-by-token decode loop with stop       *)
(* string detection, run by up to two requests that share one model and    *)
(* interleave at the points where the asynchronous generator is suspended  *)
(* (its yield statements).                                                 *)
(*                                                                         *)
(* Text is a sequence of one-character strings; Python's None is the       *)
(* string "None" for names and finish reasons, NoneToken for a token and   *)
(* NoneCache for a cache handle.                                           *)
(***************************************************************************)
EXTENDS Integers, Sequences, FiniteSets, TLC

VARIABLES
  request,           \* per request: the arguments of generate_iterator
  vocab,             \* token ids the model's selection can produce
  top1,              \* the model's highest-scoring token for each input it has scored
  active_adapter,    \* self.model's active adapter (shared by all requests)
  pc,                \* per request: position of the generator
  running,           \* the request whose code is executing, 0 when all are suspended
  stop_,             \* forward: stop_ in its iteration order
  output_token_ids,  \* forward: output_token_ids
  i,                 \* forward: loop index
  token,             \* forward: token
  past_key_values,   \* forward: past_key_values
  out,               \* forward: out (handle of the last model output)
  text,              \* forward: text
  stopped,           \* forward: stopped
  partially_stopped, \* forward: partially_stopped
  bound,             \* forward: which of the loop-body locals are bound
  finish_reason,     \* forward: finish_reason
  stream,            \* per request: the GenerationOutputs yielded so far
  error,             \* per request: the exception that left the generator
  cleaned,           \* per request: the "# Clean" lines have run
  invocations,       \* per request: log of the calls of self.model
  steps,             \* per request: log of the executed loop bodies
  vllm_request,      \* vLLMRunnable: the arguments of generate_iterator
  vllm_pc,           \* vLLMRunnable: position of the generator
  vllm_calls,        \* vLLMRunnable: log of the calls of self.model.generate
  vllm_stream,       \* vLLMRunnable: the outputs yielded so far
  vllm_error         \* vLLMRunnable: the exception that left the generator

config == <<request, vocab>>
locals == <<stop_, output_token_ids, i, token, past_key_values, out, text,
            stopped, partially_stopped, bound, finish_reason>>
logs == <<invocations, steps>>
vllm == <<vllm_request, vllm_pc, vllm_calls, vllm_stream, vllm_error>>
vars == <<request, vocab, top1, active_adapter, pc, running, stop_, output_token_ids,
          i, token, past_key_values, out, text, stopped, partially_stopped,
          bound, finish_reason, stream, error, cleaned, invocations, steps,
          vllm_request, vllm_pc, vllm_calls, vllm_stream, vllm_error>>

-----------------------------------------------------------------------------
(* Bounds *)

MaxNewTokens == 3

-----------------------------------------------------------------------------
(* Values *)

Requests == {1, 2}
None == "None"
NoneToken == -1
NoneCache == [owner |-> 0, step |-> 0]
Adapters == {"a1", "a2"}

A == <<"A">>
B == <<"B">>
AB == <<"A", "B">>
BA == <<"B", "A">>
AAB == <<"A", "A", "B">>
Empty == <<>>

\* token ids of the model: 42 -> "A", 7 -> "B", 11 -> "AA", 2 is a special
\* token (dropped by skip_special_tokens=True)
TokenIds == {2, 7, 11, 42}

Max(S) == CHOOSE x \in S : \A y \in S : y <= x

\* tokenizer.decode(ids, skip_special_tokens=True, ...): the pieces of the
\* tokens in order, special tokens skipped
TokenText(tok) ==
  CASE tok = 42 -> <<"A">>
    [] tok = 7  -> <<"B">>
    [] tok = 11 -> <<"A", "A">>
    [] OTHER    -> <<>>

RECURSIVE decode(_)
decode(ids) ==
  IF ids = <<>> THEN <<>> ELSE TokenText(Head(ids)) \o decode(Tail(ids))

\* str.rfind(sub, start): highest index (from 0) where sub occurs, else -1
rfind(s, sub, start) ==
  LET cands == {p \in start..(Len(s) - Len(sub)) : SubSeq(s, p + 1, p + Len(sub)) = sub}
  IN IF cands = {} THEN -1 ELSE Max(cands)

\* _generation.is_partial_stop(output, stop_str): the output ends with a
\* non-empty proper prefix of stop_str
is_partial_stop(output, stop_str) ==
  \E k \in 1..(Len(stop_str) - 1) :
    /\ k <= Len(output)
    /\ SubSeq(output, Len(output) - k + 1, Len(output)) = SubSeq(stop_str, 1, k)

\* the orders in which a Python set can be iterated
Orders(S) ==
  {q \in [1..Cardinality(S) -> S] : \A m, n \in 1..Cardinality(S) : q[m] = q[n] => m = n}

\* lines 101-105: the set stop_ built from the stop argument
StopSet(stop) ==
  IF stop.kind = "str" /\ stop.str # Empty THEN {stop.str}
  ELSE IF stop.kind = "str" THEN {}          \* '' is Iterable: update('') adds nothing
  ELSE IF stop.kind = "iter" THEN stop.items
  ELSE {}

\* scan without the break at line 175: the last stop string scanned decides
\* partially_stopped
RECURSIVE scan_no_break(_, _)
scan_no_break(txt, its) ==
  IF its = <<>>
  THEN [text |-> txt, stopped |-> FALSE, partially_stopped |-> FALSE]
  ELSE LET it == Head(its)
           pos == rfind(txt, it, 0)
       IN IF pos # -1
          THEN [text |-> SubSeq(txt, 1, pos), stopped |-> TRUE, partially_stopped |-> FALSE]
          ELSE IF Tail(its) = <<>>
               THEN [text |-> txt, stopped |-> FALSE,
                     partially_stopped |-> is_partial_stop(txt, it)]
               ELSE scan_no_break(txt, Tail(its))

\* scan that goes on to the next stop string after a partial match and keeps
\* the flag: a later full match then sets stopped with partially_stopped set
RECURSIVE scan_from(_, _, _)
scan_from(txt, its, partial) ==
  IF its = <<>>
  THEN [text |-> txt, stopped |-> FALSE, partially_stopped |-> partial]
  ELSE LET it == Head(its)
           pos == rfind(txt, it, 0)
       IN IF pos # -1
          THEN [text |-> SubSeq(txt, 1, pos), stopped |-> TRUE, partially_stopped |-> partial]
          ELSE scan_from(txt, Tail(its), partial \/ is_partial_stop(txt, it))

scan_sticky(txt, its) == scan_from(txt, its, FALSE)

\* lines 166-175: the scan over stop_, from the decoded text
RECURSIVE scan(_, _)
scan(txt, its) ==
  IF its = <<>>
  THEN [text |-> txt, stopped |-> FALSE, partially_stopped |-> FALSE]
  ELSE LET it == Head(its)
           pos == rfind(txt, it, 0)
       IN IF pos # -1
          THEN [text |-> SubSeq(txt, 1, pos), stopped |-> TRUE, partially_stopped |-> FALSE]
          ELSE IF is_partial_stop(txt, it)
               THEN [text |-> txt, stopped |-> FALSE, partially_stopped |-> TRUE]
               ELSE scan(txt, Tail(its))

\* a GenerationOutput built from the working list instead of the request's
\* own prompt_token_ids, as if line 114 aliased the list instead of copying it
GenerationOutput_aliased(r, fin, txt, ids, reason) ==
  [prompt |-> "", finished |-> fin,
   outputs |-> <<[index |-> 0, text |-> txt, token_ids |-> ids,
                  cumulative_logprob |-> 0, finish_reason |-> reason]>>,
   prompt_token_ids |-> output_token_ids[r],
   request_id |-> request[r].request_id]

\* lines 177-187 and 194-208: a GenerationOutput with its single CompletionChunk
GenerationOutput(r, fin, txt, ids, reason) ==
  [prompt |-> "", finished |-> fin,
   outputs |-> <<[index |-> 0, text |-> txt, token_ids |-> ids,
                  cumulative_logprob |-> 0, finish_reason |-> reason]>>,
   prompt_token_ids |-> request[r].prompt_token_ids,
   request_id |-> request[r].request_id]

input_len(r) == Len(request[r].prompt_token_ids)

\* the slice without its start: the whole of output_token_ids, prompt included
generated_with_prompt(ids, r) == ids

generated(ids, r) == SubSeq(ids, input_len(r) + 1, Len(ids))

-----------------------------------------------------------------------------
(* Initial states *)

NoStop == [kind |-> "none", str |-> Empty, items |-> {}]
StrStop(s) == [kind |-> "str", str |-> s, items |-> {}]
IterStop(S) == [kind |-> "iter", str |-> Empty, items |-> S]

StopArgs ==
  {NoStop, StrStop(Empty), StrStop(A), StrStop(AB), StrStop(AAB),
   IterStop({}), IterStop({Empty}), IterStop({BA, B}), IterStop({AB, B}),
   IterStop({AB, BA})}

\* temperature in units of 1e-6 and top_p in units of 1e-9, with the
\* thresholds 1e-5 and 1e-8 of line 144 in the same units
TemperatureEps == 10
TopPEps == 10

GreedyByTemperature == [temperature |-> 0, top_p |-> 900000000]
GreedyByTopP == [temperature |-> 750000, top_p |-> 0]
AtThresholds == [temperature |-> TemperatureEps, top_p |-> TopPEps]
SamplingArgs == {GreedyByTemperature, GreedyByTopP, AtThresholds}

Request(id, prompt, stop, adapter, n, samp) ==
  [request_id |-> id, prompt_token_ids |-> prompt, stop |-> stop,
   adapter_name |-> adapter, max_new_tokens |-> n,
   temperature |-> samp.temperature, top_p |-> samp.top_p]

Absent == Request("", <<>>, NoStop, None, 0, GreedyByTemperature)

InitLocals ==
  /\ stop_ = [r \in Requests |-> <<>>]
  /\ output_token_ids = [r \in Requests |-> <<>>]
  /\ i = [r \in Requests |-> 0]
  /\ token = [r \in Requests |-> NoneToken]
  /\ past_key_values = [r \in Requests |-> NoneCache]
  /\ out = [r \in Requests |-> NoneCache]
  /\ text = [r \in Requests |-> Empty]
  /\ stopped = [r \in Requests |-> FALSE]
  /\ partially_stopped = [r \in Requests |-> FALSE]
  /\ bound = [r \in Requests |-> {}]
  /\ finish_reason = [r \in Requests |-> None]
  /\ stream = [r \in Requests |-> <<>>]
  /\ error = [r \in Requests |-> None]
  /\ cleaned = [r \in Requests |-> FALSE]
  /\ invocations = [r \in Requests |-> <<>>]
  /\ steps = [r \in Requests |-> <<>>]
  /\ active_adapter = None
  /\ top1 = {}
  /\ running = 0

\* one request, any stop argument, a model that can choose any token
InitSingle ==
  /\ \E s \in StopArgs, a \in {None, "a1"}, n \in 0..MaxNewTokens, samp \in SamplingArgs :
       request = [r \in Requests |->
                    IF r = 1 THEN Request("r1", <<5, 9>>, s, a, n, samp) ELSE Absent]
  /\ vocab = TokenIds
  /\ pc = [r \in Requests |-> IF r = 1 THEN "created" ELSE "absent"]

\* two requests on the same model, no stop strings, a model that always
\* chooses token 42
InitShared ==
  /\ \E a1, a2 \in Adapters \cup {None}, n1, n2 \in 0..MaxNewTokens :
       request = [r \in Requests |->
                    IF r = 1 THEN Request("r1", <<5, 9>>, NoStop, a1, n1, GreedyByTemperature)
                    ELSE Request("r2", <<5>>, NoStop, a2, n2, AtThresholds)]
  /\ vocab = {42}
  /\ pc = [r \in Requests |-> "created"]

\* the same request twice on the same model: same prompt, stop argument and
\* sampling arguments, a model that chooses between tokens 7 and 42
TwinStops == {NoStop, StrStop(AB), IterStop({BA, B})}

InitTwin ==
  /\ \E s \in TwinStops, n \in 0..MaxNewTokens, samp \in {GreedyByTemperature, AtThresholds} :
       request = [r \in Requests |->
                    Request(IF r = 1 THEN "r1" ELSE "r2", <<5, 9>>, s, None, n, samp)]
  /\ vocab = {7, 42}
  /\ pc = [r \in Requests |-> "created"]

\* no request on the vLLM runnable
NoVLLM ==
  /\ vllm_request = Absent
  /\ vllm_pc = "absent"

\* one request on a vLLM runnable, with or without an adapter name
VLLMStops == {NoStop, StrStop(Empty), StrStop(AB), IterStop({BA, B})}

InitVLLM ==
  /\ \E s \in VLLMStops, a \in Adapters \cup {None}, n \in 1..MaxNewTokens,
        samp \in SamplingArgs :
       vllm_request = Request("v1", <<5, 9>>, s, a, n, samp)
  /\ vllm_pc = "created"
  /\ request = [r \in Requests |-> Absent]
  /\ vocab = TokenIds
  /\ pc = [r \in Requests |-> "absent"]

Init ==
  /\ InitLocals
  /\ vllm_calls = <<>> /\ vllm_stream = <<>> /\ vllm_error = None
  /\ \/ (InitSingle \/ InitShared \/ InitTwin) /\ NoVLLM
     \/ InitVLLM

-----------------------------------------------------------------------------
(* Actions *)

\* lines 92-95 and 99-120: the first pull runs generate_iterator up to the
\* loop of forward: set_adapter, stop_, the locals
GenerateIterator(r) ==
  /\ pc[r] = "created" /\ running = 0
  /\ active_adapter' = IF request[r].adapter_name # None
                       THEN request[r].adapter_name ELSE active_adapter
  /\ \E order \in Orders(StopSet(request[r].stop)) :
       stop_' = [stop_ EXCEPT ![r] = order]
  /\ output_token_ids' = [output_token_ids EXCEPT ![r] = request[r].prompt_token_ids]
  /\ past_key_values' = [past_key_values EXCEPT ![r] = NoneCache]
  /\ out' = [out EXCEPT ![r] = NoneCache]
  /\ token' = [token EXCEPT ![r] = NoneToken]
  /\ finish_reason' = [finish_reason EXCEPT ![r] = None]
  /\ i' = [i EXCEPT ![r] = 0]
  /\ pc' = [pc EXCEPT ![r] = "loop"]
  /\ running' = r
  /\ UNCHANGED <<vllm, config, top1, text, stopped, partially_stopped, bound, stream, error,
                 cleaned, logs>>

\* the call at lines 125-127 made with a cache kept on the runnable instead of
\* in the local past_key_values: the cache of the other request
Invocation_shared_cache(r) ==
  [input |-> IF i[r] = 0 THEN request[r].prompt_token_ids ELSE <<token[r]>>,
   past_key_values |-> IF i[r] = 0 THEN NoneCache
                       ELSE past_key_values[CHOOSE q \in Requests : q # r],
   adapter |-> active_adapter]

\* the call of self.model at lines 122-127, as logged
Invocation(r) ==
  [input |-> IF i[r] = 0 THEN request[r].prompt_token_ids ELSE <<token[r]>>,
   past_key_values |-> IF i[r] = 0 THEN NoneCache ELSE past_key_values[r],
   adapter |-> active_adapter]

\* line 144: the greedy branch is taken
greedy(r) ==
  request[r].temperature < TemperatureEps \/ request[r].top_p < TopPEps

\* what the logits of a call depend on: the model with its active adapter and
\* the tokens it has been given so far (the prompt and the generated tokens)
ModelInput(r) == <<active_adapter, output_token_ids[r]>>

\* lines 144-152: tokens[0]. torch.topk gives the highest-scoring token, the
\* same one whenever the model scores the same input; torch.multinomial may
\* draw any token
Selects(r, tok) ==
  greedy(r) => \A p \in top1 : p[1] = ModelInput(r) => p[2] = tok

\* lines 121-189: one iteration of the loop in which the model and the
\* tokenizer succeed and the selection yields tok
DecodeStep(r, tok) ==
  /\ pc[r] = "loop" /\ running = r
  /\ i[r] < request[r].max_new_tokens
  /\ Selects(r, tok)
  /\ top1' = IF greedy(r) THEN top1 \cup {<<ModelInput(r), tok>>} ELSE top1
  /\ LET ids == Append(output_token_ids[r], tok)
         cache == [owner |-> r, step |-> i[r] + 1]
         decoded == decode(generated(ids, r))
         res == scan(decoded, stop_[r])
         emit == ~res.partially_stopped
     IN /\ invocations' = [invocations EXCEPT ![r] = Append(@, Invocation(r))]
        /\ out' = [out EXCEPT ![r] = cache]
        /\ past_key_values' = [past_key_values EXCEPT ![r] = cache]
        /\ token' = [token EXCEPT ![r] = tok]
        /\ output_token_ids' = [output_token_ids EXCEPT ![r] = ids]
        /\ text' = [text EXCEPT ![r] = res.text]
        /\ stopped' = [stopped EXCEPT ![r] = res.stopped]
        /\ partially_stopped' = [partially_stopped EXCEPT ![r] = res.partially_stopped]
        /\ bound' = [bound EXCEPT ![r] = {"stopped", "text", "partially_stopped"}]
        /\ steps' = [steps EXCEPT ![r] =
                       Append(@, [decoded |-> decoded, text |-> res.text,
                                  stopped |-> res.stopped,
                                  partially_stopped |-> res.partially_stopped,
                                  emitted |-> emit])]
        /\ IF emit
           THEN /\ stream' = [stream EXCEPT ![r] =
                      Append(@, GenerationOutput(r, FALSE, res.text, generated(ids, r), None))]
                /\ pc' = [pc EXCEPT ![r] = "yield"]
                /\ running' = 0
                /\ i' = i
           ELSE \* nothing is yielded; stopped is False here, so the loop goes on
                /\ stream' = stream
                /\ pc' = pc
                /\ running' = running
                /\ i' = [i EXCEPT ![r] = i[r] + 1]
  /\ UNCHANGED <<vllm, config, active_adapter, stop_, finish_reason, error, cleaned>>

\* the failure caught inside the loop: the loop ends and forward goes on to
\* its terminal yield
ModelFailure_swallowed(r) ==
  /\ pc[r] = "loop" /\ running = r
  /\ i[r] < request[r].max_new_tokens
  /\ invocations' = [invocations EXCEPT ![r] = Append(@, Invocation(r))]
  /\ error' = [error EXCEPT ![r] = "ModelError"]
  /\ pc' = [pc EXCEPT ![r] = "after"]
  /\ running' = running
  /\ UNCHANGED <<vllm, config, top1, active_adapter, locals, stream, cleaned, steps>>

\* lines 122-129 and 159: self.model or tokenizer.decode raises; the exception
\* leaves forward, nothing catches it and lines 210-213 are not run
ModelFailure(r) ==
  /\ pc[r] = "loop" /\ running = r
  /\ i[r] < request[r].max_new_tokens
  /\ invocations' = [invocations EXCEPT ![r] = Append(@, Invocation(r))]
  /\ error' = [error EXCEPT ![r] = "ModelError"]
  /\ pc' = [pc EXCEPT ![r] = "raised"]
  /\ running' = 0
  /\ UNCHANGED <<vllm, config, top1, active_adapter, locals, stream, cleaned, steps>>

\* the resumption without "if stopped: break" (lines 188-189): the loop goes on
\* after a full stop match
Resume_no_break(r) ==
  /\ pc[r] = "yield" /\ running = 0
  /\ running' = r
  /\ pc' = [pc EXCEPT ![r] = "loop"]
  /\ i' = [i EXCEPT ![r] = i[r] + 1]
  /\ UNCHANGED <<vllm, config, top1, active_adapter, stop_, output_token_ids, token,
                 past_key_values, out, text, stopped, partially_stopped, bound,
                 finish_reason, stream, error, cleaned, logs>>

\* lines 187-189 and 121: the consumer pulls the next element after a
\* non-terminal yield
Resume(r) ==
  /\ pc[r] = "yield" /\ running = 0
  /\ running' = r
  /\ IF stopped[r]
     THEN /\ pc' = [pc EXCEPT ![r] = "after"]
          /\ i' = i
     ELSE /\ pc' = [pc EXCEPT ![r] = "loop"]
          /\ i' = [i EXCEPT ![r] = i[r] + 1]
  /\ UNCHANGED <<vllm, config, top1, active_adapter, stop_, output_token_ids, token,
                 past_key_values, out, text, stopped, partially_stopped, bound,
                 finish_reason, stream, error, cleaned, logs>>

\* lines 121 and 190-191: the range is exhausted, the else clause of the loop
LoopExhausted(r) ==
  /\ pc[r] = "loop" /\ running = r
  /\ i[r] >= request[r].max_new_tokens
  /\ finish_reason' = [finish_reason EXCEPT ![r] = "length"]
  /\ pc' = [pc EXCEPT ![r] = "after"]
  /\ UNCHANGED <<vllm, config, top1, active_adapter, running, stop_, output_token_ids, i, token,
                 past_key_values, out, text, stopped, partially_stopped, bound,
                 stream, error, cleaned, logs>>

\* lines 192-208: "if stopped" and the terminal yield; reading stopped when no
\* iteration has bound it raises UnboundLocalError
Terminal(r) ==
  /\ pc[r] = "after" /\ running = r
  /\ running' = 0
  /\ IF "stopped" \notin bound[r]
     THEN /\ error' = [error EXCEPT ![r] = "UnboundLocalError"]
          /\ pc' = [pc EXCEPT ![r] = "raised"]
          /\ UNCHANGED <<finish_reason, stream>>
     ELSE LET reason == IF stopped[r] THEN "stop" ELSE finish_reason[r]
          IN /\ finish_reason' = [finish_reason EXCEPT ![r] = reason]
             /\ stream' = [stream EXCEPT ![r] =
                   Append(@, GenerationOutput(r, TRUE, text[r],
                                              generated(output_token_ids[r], r), reason))]
             /\ pc' = [pc EXCEPT ![r] = "final"]
             /\ error' = error
  /\ UNCHANGED <<vllm, config, top1, active_adapter, stop_, output_token_ids, i, token,
                 past_key_values, out, text, stopped, partially_stopped, bound,
                 cleaned, logs>>

\* lines 210-213: the consumer pulls after the terminal yield; the generator
\* runs "# Clean" and ends
Clean(r) ==
  /\ pc[r] = "final" /\ running = 0
  /\ past_key_values' = [past_key_values EXCEPT ![r] = NoneCache]
  /\ out' = [out EXCEPT ![r] = NoneCache]
  /\ cleaned' = [cleaned EXCEPT ![r] = TRUE]
  /\ pc' = [pc EXCEPT ![r] = "done"]
  /\ UNCHANGED <<vllm, config, top1, active_adapter, running, stop_, output_token_ids, i, token,
                 text, stopped, partially_stopped, bound, finish_reason, stream,
                 error, logs>>

\* lines 177-187 and 194-208: the consumer cancels while the generator is
\* suspended at a yield; the exception thrown in at the yield leaves forward
\* and lines 210-213 are not run. Whether the frame's references are dropped
\* at once (aclose) or stay until the generator is finalised depends on the
\* consumer.
Cancel(r) ==
  /\ pc[r] \in {"yield", "final"} /\ running = 0
  /\ pc' = [pc EXCEPT ![r] = "cancelled"]
  /\ \E dropped \in BOOLEAN :
       /\ past_key_values' = [past_key_values EXCEPT ![r] = IF dropped THEN NoneCache ELSE @]
       /\ out' = [out EXCEPT ![r] = IF dropped THEN NoneCache ELSE @]
  /\ UNCHANGED <<vllm, config, top1, active_adapter, running, stop_, output_token_ids, i, token,
                 text, stopped, partially_stopped, bound, finish_reason, stream,
                 error, cleaned, logs>>

\* line 70 in the units of top_p: 1.0
TopPOne == 1000000000

\* lines 61-73: list(stop_), temperature and top_p as handed to the engine
sampling_params(order) ==
  [stop |-> order,
   temperature |-> vllm_request.temperature,
   top_p |-> IF vllm_request.temperature <= TemperatureEps
             THEN TopPOne ELSE vllm_request.top_p,
   max_tokens |-> vllm_request.max_new_tokens]

\* the call of self.model.generate at line 75, as logged
EngineCall(order) ==
  [sampling_params |-> sampling_params(order),
   request_id |-> vllm_request.request_id,
   prompt_token_ids |-> vllm_request.prompt_token_ids]

\* generate_iterator with the adapter check placed after the call of the engine
vLLMGenerateIterator_late_check ==
  /\ vllm_pc = "created"
  /\ \E order \in Orders(StopSet(vllm_request.stop)) :
       vllm_calls' = Append(vllm_calls, EngineCall(order))
  /\ IF vllm_request.adapter_name # None
     THEN vllm_pc' = "raised" /\ vllm_error' = "NotImplementedError"
     ELSE vllm_pc' = "engine" /\ UNCHANGED vllm_error
  /\ UNCHANGED <<vllm_request, vllm_stream>>
  /\ UNCHANGED <<config, top1, active_adapter, pc, running, locals, stream, error,
                 cleaned, logs>>

\* lines 57-75: the first pull runs vLLMRunnable.generate_iterator up to the
\* engine's generator: it raises at once for an adapter name, else it builds
\* the sampling parameters and calls self.model.generate
vLLMGenerateIterator ==
  /\ vllm_pc = "created"
  /\ IF vllm_request.adapter_name # None
     THEN /\ vllm_pc' = "raised"
          /\ vllm_error' = "NotImplementedError"
          /\ UNCHANGED vllm_calls
     ELSE /\ \E order \in Orders(StopSet(vllm_request.stop)) :
               vllm_calls' = Append(vllm_calls, EngineCall(order))
          /\ vllm_pc' = "engine"
          /\ UNCHANGED vllm_error
  /\ UNCHANGED <<vllm_request, vllm_stream>>
  /\ UNCHANGED <<config, top1, active_adapter, pc, running, locals, stream, error,
                 cleaned, logs>>

\* lines 75-79: the engine produces a request_output, which is yielded as a
\* GenerationOutput; the engine marks its last one finished and produces at
\* most max_tokens of them
vLLMRequestOutput ==
  /\ vllm_pc = "engine"
  /\ IF vllm_stream = <<>> THEN TRUE ELSE ~vllm_stream[Len(vllm_stream)].finished
  /\ \E fin \in BOOLEAN :
       /\ Len(vllm_stream) + 1 = vllm_request.max_new_tokens => fin
       /\ vllm_stream' = Append(vllm_stream,
                                [request_id |-> vllm_request.request_id,
                                 prompt_token_ids |-> vllm_request.prompt_token_ids,
                                 index |-> Len(vllm_stream),
                                 finished |-> fin])
  /\ UNCHANGED <<vllm_request, vllm_pc, vllm_calls, vllm_error>>
  /\ UNCHANGED <<config, top1, active_adapter, pc, running, locals, stream, error,
                 cleaned, logs>>

\* line 75: the engine's generator is exhausted and generate_iterator returns
vLLMEngineDone ==
  /\ vllm_pc = "engine"
  /\ IF vllm_stream = <<>> THEN FALSE ELSE vllm_stream[Len(vllm_stream)].finished
  /\ vllm_pc' = "done"
  /\ UNCHANGED <<vllm_request, vllm_calls, vllm_stream, vllm_error>>
  /\ UNCHANGED <<config, top1, active_adapter, pc, running, locals, stream, error,
                 cleaned, logs>>

Next ==
  \/ \E r \in Requests :
       \/ GenerateIterator(r)
       \/ \E tok \in vocab : DecodeStep(r, tok)
       \/ ModelFailure(r)
       \/ Resume(r)
       \/ LoopExhausted(r)
       \/ Terminal(r)
       \/ Clean(r)
       \/ Cancel(r)
  \/ vLLMGenerateIterator
  \/ vLLMRequestOutput
  \/ vLLMEngineDone

Spec == Init /\ [][Next]_vars

-----------------------------------------------------------------------------
(* Vocabulary of the properties *)

Chunk(o) == o.outputs[1]

StopStrings(r) == StopSet(request[r].stop)

\* sub occurs verbatim in txt
Occurs(sub, txt) ==
  \E p \in 0..(Len(txt) - Len(sub)) : SubSeq(txt, p + 1, p + Len(sub)) = sub

\* txt ends with a non-empty proper prefix of s
EndsWithProperPrefix(txt, s) ==
  \E k \in 1..(Len(s) - 1) :
    k <= Len(txt) /\ SubSeq(txt, Len(txt) - k + 1, Len(txt)) = SubSeq(s, 1, k)

Terminals(r) == {k \in DOMAIN stream[r] : stream[r][k].finished}

NonTerminals(r) == {k \in DOMAIN stream[r] : ~stream[r][k].finished}

\* the generator has returned or raised on its own (it was not cancelled)
Ended(r) == pc[r] \in {"done", "raised"}

ModelFailed(r) == error[r] = "ModelError"

\* some configured stop string occurs in the text decoded at step k
FullAt(r, k) == \E s \in StopStrings(r) : Occurs(s, steps[r][k].decoded)

\* the text decoded at step k ends with a proper prefix of a stop string
PartialAt(r, k) == \E s \in StopStrings(r) : EndsWithProperPrefix(steps[r][k].decoded, s)

Generated(r) == generated(output_token_ids[r], r)

\* the k-th chunk of a run without stop strings: the first k generated tokens
\* and their text
PlainChunk(r, k) ==
  GenerationOutput(r, FALSE, decode(SubSeq(Generated(r), 1, k)),
                   SubSeq(Generated(r), 1, k), None)

-----------------------------------------------------------------------------
(* Properties *)

\* C1: a request with max_new_tokens = N in which no stop string ever occurs
\* in the decoded text, and whose model does not fail, ends with exactly one
\* terminal output; it is the last, has finish_reason "length" and follows at
\* most N non-terminal outputs.
C1_LengthTermination ==
  \A r \in Requests :
    (/\ Ended(r) /\ ~ModelFailed(r)
     /\ \A k \in DOMAIN steps[r] : ~FullAt(r, k))
    => /\ Cardinality(Terminals(r)) = 1
       /\ \A k \in Terminals(r) :
            /\ Chunk(stream[r][k]).finish_reason = "length"
            /\ k = Len(stream[r])
       /\ Cardinality(NonTerminals(r)) <= request[r].max_new_tokens

\* C1 for max_new_tokens >= 1: the only requests that break C1 are those with
\* max_new_tokens = 0, where line 192 reads the unbound local stopped.
C1_PositiveBudget ==
  \A r \in Requests :
    (/\ request[r].max_new_tokens >= 1
     /\ Ended(r) /\ ~ModelFailed(r)
     /\ \A k \in DOMAIN steps[r] : ~FullAt(r, k))
    => /\ Cardinality(Terminals(r)) = 1
       /\ \A k \in Terminals(r) :
            /\ Chunk(stream[r][k]).finish_reason = "length"
            /\ k = Len(stream[r])
       /\ Cardinality(NonTerminals(r)) <= request[r].max_new_tokens

\* C2: once a configured stop string has occurred verbatim in the text decoded
\* at some step, the terminal chunk has finish_reason "stop" and its text does
\* not contain that stop string.
C2_TerminalExcludesStop ==
  \A r \in Requests : \A k \in DOMAIN steps[r] : \A s \in StopStrings(r) :
    Occurs(s, steps[r][k].decoded)
    => \A t \in Terminals(r) :
         /\ Chunk(stream[r][t]).finish_reason = "stop"
         /\ ~Occurs(s, Chunk(stream[r][t]).text)

\* C3 (as stated): a step where no stop string fully matches and the decoded
\* text ends with a proper prefix of a stop string emits nothing, and no
\* non-terminal chunk's text ends with a proper prefix of a stop string.
C3_NoPrefixInAnyChunk ==
  \A r \in Requests :
    /\ \A k \in DOMAIN steps[r] :
         (~FullAt(r, k) /\ PartialAt(r, k)) => ~steps[r][k].emitted
    /\ \A k \in NonTerminals(r) : \A s \in StopStrings(r) :
         ~EndsWithProperPrefix(Chunk(stream[r][k]).text, s)

\* C3 (amended): a step where no stop string fully matches and the decoded
\* text ends with a proper prefix of a stop string emits nothing, so the chunk
\* emitted by a step without a full match never ends with a proper prefix of
\* a stop string, whatever the iteration order of the stop set.
C3_PartialSuppression ==
  \A r \in Requests : \A k \in DOMAIN steps[r] :
    /\ (~FullAt(r, k) /\ PartialAt(r, k)) => ~steps[r][k].emitted
    /\ (~FullAt(r, k) /\ steps[r][k].emitted)
       => \A s \in StopStrings(r) : ~EndsWithProperPrefix(steps[r][k].text, s)

\* C3 witness: with two stop strings, a step whose text fully matches none and
\* ends with a proper prefix of the one iterated second was withheld, and a
\* later step of the same request emitted a chunk.
C3_Witness ==
  \E r \in Requests : \E k, m \in DOMAIN steps[r] :
    /\ Len(stop_[r]) = 2
    /\ ~FullAt(r, k) /\ EndsWithProperPrefix(steps[r][k].decoded, stop_[r][2])
    /\ ~steps[r][k].emitted
    /\ k < m /\ steps[r][m].emitted

\* C4: at every step where some stop string occurs verbatim in the decoded
\* text, stopped becomes true at that step.
C4_AnyFullMatchWins ==
  \A r \in Requests : \A k \in DOMAIN steps[r] :
    FullAt(r, k) => steps[r][k].stopped

\* C5: a chunk has a finish_reason iff its output is finished; a finished
\* output is the last of its stream, with finish_reason "stop" or "length";
\* a stream that ends without a model failure has exactly one.
C5_FinishReasonIffTerminal ==
  \A r \in Requests :
    /\ \A k \in DOMAIN stream[r] :
         /\ (Chunk(stream[r][k]).finish_reason # None) <=> stream[r][k].finished
         /\ stream[r][k].finished
            => /\ k = Len(stream[r])
               /\ Chunk(stream[r][k]).finish_reason \in {"stop", "length"}
    /\ (Ended(r) /\ ~ModelFailed(r)) => Cardinality(Terminals(r)) = 1

\* C5 for max_new_tokens >= 1: the only streams that break C5 are those of
\* requests with max_new_tokens = 0.
C5_PositiveBudget ==
  \A r \in Requests :
    /\ \A k \in DOMAIN stream[r] :
         /\ (Chunk(stream[r][k]).finish_reason # None) <=> stream[r][k].finished
         /\ stream[r][k].finished
            => /\ k = Len(stream[r])
               /\ Chunk(stream[r][k]).finish_reason \in {"stop", "length"}
    /\ (request[r].max_new_tokens >= 1 /\ Ended(r) /\ ~ModelFailed(r))
       => Cardinality(Terminals(r)) = 1

\* C6: when a request has ended, normally or by a failure of the model, its
\* cache (past_key_values, out) has been released.
C6_CacheReleasedOnExit ==
  \A r \in Requests :
    Ended(r) => past_key_values[r] = NoneCache /\ out[r] = NoneCache

\* C7: a request cancelled by its consumer has left through the cleanup path.
C7_CancelRunsCleanup ==
  \A r \in Requests : pc[r] = "cancelled" => cleaned[r]

\* C8: with the stop argument '' or a collection holding only '', the stream
\* is that of a request without stop strings: the k-th output is the k-th
\* plain chunk, and the terminal one comes after max_new_tokens steps with
\* finish_reason "length".
C8_EmptyStopIsAbsent ==
  \A r \in Requests :
    (request[r].stop \in {StrStop(Empty), IterStop({Empty})})
    => \A k \in DOMAIN stream[r] :
         IF stream[r][k].finished
         THEN /\ k = request[r].max_new_tokens + 1
              /\ Chunk(stream[r][k]).finish_reason = "length"
         ELSE stream[r][k] = PlainChunk(r, k)

\* C9: without stop strings and with max_new_tokens = N, a request whose model
\* does not fail emits N non-terminal chunks, the k-th with the first k
\* generated tokens and their text, then one terminal chunk with
\* finish_reason "length".
C9_ExactlyNSteps ==
  \A r \in Requests :
    StopStrings(r) = {}
    => /\ \A k \in NonTerminals(r) : stream[r][k] = PlainChunk(r, k)
       /\ (Ended(r) /\ ~ModelFailed(r))
          => LET N == request[r].max_new_tokens
             IN /\ Len(stream[r]) = N + 1
                /\ NonTerminals(r) = 1..N
                /\ stream[r][N + 1] =
                     GenerationOutput(r, TRUE, decode(Generated(r)), Generated(r), "length")

\* C9 for max_new_tokens >= 1: the only requests that break C9 are those with
\* max_new_tokens = 0.
C9_PositiveBudget ==
  \A r \in Requests :
    StopStrings(r) = {}
    => /\ \A k \in NonTerminals(r) : stream[r][k] = PlainChunk(r, k)
       /\ (request[r].max_new_tokens >= 1 /\ Ended(r) /\ ~ModelFailed(r))
          => LET N == request[r].max_new_tokens
             IN /\ Len(stream[r]) = N + 1
                /\ NonTerminals(r) = 1..N
                /\ stream[r][N + 1] =
                     GenerationOutput(r, TRUE, decode(Generated(r)), Generated(r), "length")

\* C10: every call of the model made for a request with an adapter runs with
\* that adapter active.
C10_AdapterHeldForRequest ==
  \A r \in Requests :
    request[r].adapter_name # None
    => \A k \in DOMAIN invocations[r] :
         invocations[r][k].adapter = request[r].adapter_name

\* C11: the first call of the model for a request gets no cache, and its k-th
\* call (k > 1) gets the cache that the (k-1)-th call of the same request
\* returned, never a cache of another request; the calls of one request are
\* made one at a time, each by the step that follows the previous one.
C11_CacheIsolation ==
  \A r \in Requests : \A k \in DOMAIN invocations[r] :
    /\ invocations[r][k].past_key_values =
         (IF k = 1 THEN NoneCache ELSE [owner |-> r, step |-> k - 1])
    /\ invocations[r][k].past_key_values.owner \in {0, r}
    /\ past_key_values[r].owner \in {0, r}
    /\ Len(steps[r]) \in {Len(invocations[r]) - 1, Len(invocations[r])}

\* C11 witness: two requests are in flight, each has made a decode call with
\* its own cache, and each holds a cache.
C11_Witness ==
  /\ \A r \in Requests : Len(invocations[r]) >= 2 /\ past_key_values[r].owner = r
  /\ \E r \in Requests : pc[r] = "yield"

\* the events of a stream, without the request identifier
Events(r) ==
  [k \in DOMAIN stream[r] |->
     [finished |-> stream[r][k].finished, chunk |-> Chunk(stream[r][k])]]

\* requests 1 and 2 are two runs of the same greedy request on the same model:
\* same prompt, same stop set, temperature < 1e-5, no adapter
GreedyTwins ==
  /\ request[1].prompt_token_ids = request[2].prompt_token_ids
  /\ StopStrings(1) = StopStrings(2)
  /\ \A r \in Requests :
       /\ request[r].temperature < TemperatureEps
       /\ request[r].adapter_name = None
       /\ pc[r] # "absent"

\* C13: two greedy runs on the same prompt, stop set, model and detokenizer
\* that have both emitted their terminal event have emitted the same events.
C13_GreedyDeterminism ==
  (GreedyTwins /\ \A r \in Requests : pc[r] \in {"final", "done"})
  => Events(1) = Events(2)

\* C13 when both runs iterate the stop set in the same order: the events
\* differ only through the order of the scan (see C4).
C13_SameIterationOrder ==
  (GreedyTwins /\ stop_[1] = stop_[2] /\ \A r \in Requests : pc[r] \in {"final", "done"})
  => Events(1) = Events(2)

C15_FailureIsFatal ==
  /\ [](\A r \in Requests :
          ModelFailed(r) => pc[r] = "raised" /\ Terminals(r) = {})
  /\ [][\A r \in Requests :
          ModelFailed(r) => /\ stream'[r] = stream[r]
                            /\ invocations'[r] = invocations[r]
                            /\ pc'[r] = "raised"
                            /\ error'[r] = "ModelError"]_vars

\* C15 witness: the model failed at a decode step of a request that had
\* already emitted a chunk, while another request is still in flight.
C15_Witness ==
  \E r, q \in Requests :
    /\ ModelFailed(r) /\ stream[r] # <<>> /\ Len(invocations[r]) >= 2
    /\ q # r /\ pc[q] = "yield"

\* C16: with max_new_tokens = 0 the model is never called, no error is
\* raised, and the request ends after exactly one output: the terminal one,
\* with finish_reason "length", empty text and no token ids.
C16_ZeroBudget ==
  \A r \in Requests :
    (pc[r] # "absent" /\ request[r].max_new_tokens = 0)
    => /\ invocations[r] = <<>>
       /\ steps[r] = <<>>
       /\ error[r] = None
       /\ Ended(r) => stream[r] = <<GenerationOutput(r, TRUE, Empty, <<>>, "length")>>

\* C16, the part that holds: with max_new_tokens = 0 the loop body never runs
\* and the model is never called.
C16_NoInvocation ==
  \A r \in Requests :
    request[r].max_new_tokens = 0 => invocations[r] = <<>> /\ steps[r] = <<>>

\* step k of request r was withheld (nothing was yielded for it)
Withheld(r, k) == ~steps[r][k].emitted

\* txt is dec cut at the start of an occurrence of a stop string of r
TruncatedAtMatch(r, txt, dec) ==
  \E s \in StopStrings(r) : \E p \in 0..(Len(dec) - Len(s)) :
    SubSeq(dec, p + 1, p + Len(s)) = s /\ txt = SubSeq(dec, 1, p)

\* C17: after a withheld step, (a) a request whose model does not fail still
\* ends with a terminal output; (b) a later step whose text matches no stop
\* string and is emitted carries all generated token ids and the full decoded
\* text; (c) a later step whose text contains the stop string that was
\* partially matched stops the request, and the terminal chunk has
\* finish_reason "stop" and the text cut at a match start.
C17_SuppressionNeverLoses ==
  \A r \in Requests : \A k \in DOMAIN steps[r] :
    Withheld(r, k)
    => /\ (Ended(r) /\ ~ModelFailed(r)) => Cardinality(Terminals(r)) = 1
       /\ \A m \in DOMAIN steps[r] :
            (m > k /\ steps[r][m].emitted /\ ~FullAt(r, m))
            => \E j \in DOMAIN stream[r] : stream[r][j] = PlainChunk(r, m)
       /\ \A m \in DOMAIN steps[r] : \A s \in StopStrings(r) :
            (/\ m > k
             /\ EndsWithProperPrefix(steps[r][k].decoded, s)
             /\ Occurs(s, steps[r][m].decoded))
            => /\ steps[r][m].stopped
               /\ \A t \in Terminals(r) :
                    /\ Chunk(stream[r][t]).finish_reason = "stop"
                    /\ TruncatedAtMatch(r, Chunk(stream[r][t]).text, steps[r][m].decoded)

\* C17, the parts that hold: (a) and (b) as above, and (c) whenever the scan
\* reaches the completed stop string, that is, whenever the step sets stopped.
C17_WhenScanReachesMatch ==
  \A r \in Requests : \A k \in DOMAIN steps[r] :
    Withheld(r, k)
    => /\ (Ended(r) /\ ~ModelFailed(r)) => Cardinality(Terminals(r)) = 1
       /\ \A m \in DOMAIN steps[r] :
            (m > k /\ steps[r][m].emitted /\ ~FullAt(r, m))
            => \E j \in DOMAIN stream[r] : stream[r][j] = PlainChunk(r, m)
       /\ \A m \in DOMAIN steps[r] :
            (m > k /\ steps[r][m].stopped)
            => \A t \in Terminals(r) :
                 /\ Chunk(stream[r][t]).finish_reason = "stop"
                 /\ TruncatedAtMatch(r, Chunk(stream[r][t]).text, steps[r][m].decoded)

\* C18: stopped and partially_stopped are never both true; so the step of a
\* full stop match emits a non-terminal chunk, and a terminal chunk with
\* finish_reason "stop" directly follows a non-terminal chunk with the same
\* text and the same token ids.
C18_StoppedNotPartial ==
  \A r \in Requests :
    /\ ~(stopped[r] /\ partially_stopped[r])
    /\ \A k \in DOMAIN steps[r] :
         /\ ~(steps[r][k].stopped /\ steps[r][k].partially_stopped)
         /\ steps[r][k].stopped => steps[r][k].emitted
    /\ \A t \in Terminals(r) :
         Chunk(stream[r][t]).finish_reason = "stop"
         => /\ t >= 2
            /\ ~stream[r][t - 1].finished
            /\ Chunk(stream[r][t - 1]).text = Chunk(stream[r][t]).text
            /\ Chunk(stream[r][t - 1]).token_ids = Chunk(stream[r][t]).token_ids
    /\ (pc[r] \in {"final", "done"} /\ steps[r][Len(steps[r])].stopped)
       => Chunk(stream[r][Len(stream[r])]).finish_reason = "stop"

\* C18 witness: with two stop strings, a request that withheld a step has
\* stopped at a later step and has emitted the truncated, non-empty text
\* twice: in a non-terminal chunk and in the terminal one.
C18_Witness ==
  \E r \in Requests : \E t \in Terminals(r) :
    /\ Len(stop_[r]) = 2
    /\ \E k \in DOMAIN steps[r] : Withheld(r, k)
    /\ Chunk(stream[r][t]).finish_reason = "stop"
    /\ Chunk(stream[r][t]).text # Empty
    /\ Chunk(stream[r][t - 1]).text = Chunk(stream[r][t]).text

IsPrefix(p, q) == Len(p) <= Len(q) /\ SubSeq(q, 1, Len(p)) = p

\* C19: the token ids of every emitted chunk are generated tokens only (the
\* prompt followed by them is a prefix of output_token_ids, and none of them
\* is a prompt token), they are a prefix of the token ids of every later
\* chunk, one token is appended per step in the greedy and in the sampling
\* branch, and at each emission their number is the number of calls of the
\* model made so far.
C19_TokenIdsGrow ==
  /\ [](\A r \in Requests :
          /\ Len(Generated(r)) = Len(steps[r])
          /\ \A j \in DOMAIN stream[r] :
               LET ids == Chunk(stream[r][j]).token_ids
               IN /\ IsPrefix(request[r].prompt_token_ids \o ids, output_token_ids[r])
                  /\ \A x \in DOMAIN ids :
                       \A y \in DOMAIN request[r].prompt_token_ids :
                         ids[x] # request[r].prompt_token_ids[y]
                  /\ Len(ids) <= Len(invocations[r])
                  /\ \A m \in DOMAIN stream[r] :
                       j < m => IsPrefix(ids, Chunk(stream[r][m]).token_ids))
  /\ [][\A r \in Requests :
          stream'[r] # stream[r]
          => /\ Len(stream'[r]) = Len(stream[r]) + 1
             /\ Len(Chunk(stream'[r][Len(stream'[r])]).token_ids) = Len(invocations'[r])]_vars

\* C19 witness: a greedy request and a sampling request on the same model
\* have each emitted two non-terminal chunks or more.
C19_Witness ==
  /\ greedy(1) /\ ~greedy(2)
  /\ \A r \in Requests : Cardinality(NonTerminals(r)) >= 2

\* C20: forward never changes the request (the generated tokens go to its own
\* copy of prompt_token_ids), and every GenerationOutput it emits, terminal or
\* not, carries the request's prompt_token_ids and request_id and exactly one
\* chunk, whose index is 0.
C20_RequestImmutable ==
  /\ [](\A r \in Requests :
          /\ pc[r] \in {"loop", "yield", "after", "final"}
             => IsPrefix(request[r].prompt_token_ids, output_token_ids[r])
          /\ \A j \in DOMAIN stream[r] :
               /\ stream[r][j].prompt_token_ids = request[r].prompt_token_ids
               /\ stream[r][j].request_id = request[r].request_id
               /\ Len(stream[r][j].outputs) = 1
               /\ stream[r][j].outputs[1].index = 0)
  /\ [][request' = request]_vars

\* C20 witness: a request whose working list has outgrown its prompt has
\* emitted a non-terminal and a terminal output.
C20_Witness ==
  \E r \in Requests :
    /\ Len(output_token_ids[r]) > input_len(r)
    /\ input_len(r) > 0
    /\ NonTerminals(r) # {}
    /\ Terminals(r) # {}

\* C12: a vLLM request with an adapter name is rejected at once: the engine
\* is never called for it and nothing is yielded, the generator can only be
\* unstarted or ended by NotImplementedError, and once it has raised nothing
\* further happens for the request (no second attempt).
C12_AdapterFailsFast ==
  /\ [](vllm_request.adapter_name # None
        => /\ vllm_calls = <<>>
           /\ vllm_stream = <<>>
           /\ vllm_pc \in {"created", "raised"}
           /\ vllm_pc = "raised" <=> vllm_error = "NotImplementedError")
  /\ [][vllm_pc = "raised" => UNCHANGED vllm]_vars
  /\ [][Len(vllm_calls') <= 1]_vars

\* C12 witness: a vLLM request with an adapter name has been pulled and has
\* raised, with no call of the engine and no output.
C12_Witness ==
  /\ vllm_request.adapter_name # None
  /\ vllm_pc = "raised"
  /\ vllm_error = "NotImplementedError"
  /\ vllm_calls = <<>>
  /\ vllm_stream = <<>>

====
